---------------------------- MODULE Spec2Model ----------------------------
(***************************************************************************)
(* AutoExpresso: driving-route estimates for two configured routes, shown  *)
(* on the console (src/src/aprox.py) or on a two-line display refreshed by *)
(* a timer (src/src/dysplay.py).                                           *)
(*                                                                         *)
(* Python values in the model:                                             *)
(*   str        a TLA+ string; one Python character is one character, and  *)
(*              the character U+00DF (sharp s) is written "$";             *)
(*   None/absent  an optional value is <<>> (absent) or <<v>> (v);         *)
(*   dict       a function whose DOMAIN is the set of keys present;        *)
(*   float      [num |-> n, den |-> d], the number n/d, d a power of ten;  *)
(*   a call     [ok |-> TRUE, val |-> v] when it returns v,                *)
(*              [ok |-> FALSE, exc |-> [type |-> t, msg |-> m]] when it    *)
(*              raises an exception of class t whose str() is m.           *)
(***************************************************************************)
EXTENDS Integers, Sequences, FiniteSets, TLC

VARIABLES
    env,             \* os.environ: variable name -> value
    apiFile,         \* content of the file 'api' beside aprox.py, <<>> when missing
    tz,              \* seconds east of UTC of the process's local time zone
    loaded,          \* what load_routes() gave the last time it ran
    data,            \* the response mapping handed to parse_route
    departure_time,  \* the departure Unix timestamp
    parsed,          \* what parse_route(data, departure_time) gave
    pc,              \* where the running program is
    in_init,         \* update_lines is running inside LedDisplayApp.__init__
    refresh_seconds, \* LedDisplayApp.refresh_seconds
    timers,          \* pending root.after callbacks, each its delay in ms
    line1,           \* text of the label line1
    line2,           \* text of the label line2
    status,          \* text of the label status
    lines,           \* fetch_route_lines' list 'lines' in the running cycle
    route_idx,       \* the route whose request is in flight (1 or 2)
    requests,        \* the routes requested so far in the running cycle or run
    caught,          \* the exception the running cycle's except clause caught
    cycle,           \* how many refreshes have started
    stdout           \* the lines printed so far

vars == <<env, apiFile, tz, loaded, data, departure_time, parsed, pc, in_init,
          refresh_seconds, timers, line1, line2, status, lines, route_idx,
          requests, caught, cycle, stdout>>

-----------------------------------------------------------------------------
(* Outcomes of calls, optional values *)

Ok(v) == [ok |-> TRUE, val |-> v]

Raise(t, m) == [ok |-> FALSE, exc |-> [type |-> t, msg |-> m]]

None == <<>>

\* F applied to the value of x, which is computed once
Bind(x, F(_)) == CHOOSE r \in {F(v) : v \in {x}} : TRUE

Some(v) == <<v>>

(* The exception classes the program meets, each with its base classes.    *)
(* EnvironmentError is Python 3's alias of OSError; requests' exceptions   *)
(* derive from OSError, and its JSONDecodeError also from ValueError.      *)
Bases(t) ==
    CASE t = "ValueError"       -> {"ValueError", "Exception"}
      [] t = "JSONDecodeError"  -> {"JSONDecodeError", "ValueError", "OSError",
                                    "EnvironmentError", "Exception"}
      [] t = "EnvironmentError" -> {"EnvironmentError", "OSError", "Exception"}
      [] t = "FileNotFoundError" -> {"FileNotFoundError", "EnvironmentError",
                                     "OSError", "Exception"}
      [] t = "ConnectionError"  -> {"ConnectionError", "EnvironmentError",
                                    "OSError", "Exception"}
      [] t = "OverflowError"    -> {"OverflowError", "ArithmeticError", "Exception"}
      [] t = "KeyError"         -> {"KeyError", "LookupError", "Exception"}
      [] t = "IndexError"       -> {"IndexError", "LookupError", "Exception"}
      [] t = "TypeError"        -> {"TypeError", "Exception"}

IsInstance(exc, cls) == cls \in Bases(exc.type)

-----------------------------------------------------------------------------
(* str methods *)

IsSpace(c) == c \in {" "}

CharAt(s, i) == SubSeq(s, i, i)

RECURSIVE LStrip(_)
LStrip(s) == IF Len(s) > 0 /\ IsSpace(Head(s)) THEN LStrip(Tail(s)) ELSE s

RECURSIVE RStrip(_)
RStrip(s) ==
    IF Len(s) > 0 /\ IsSpace(CharAt(s, Len(s)))
    THEN RStrip(SubSeq(s, 1, Len(s) - 1))
    ELSE s

\* str.strip()
Strip(s) == RStrip(LStrip(s))

\* c in s
Contains(s, c) == \E i \in 1..Len(s) : CharAt(s, i) = c

\* s.find(c) as a 1-based index, 0 when c is not in s
Find(s, c) ==
    IF Contains(s, c)
    THEN CHOOSE i \in 1..Len(s) :
            CharAt(s, i) = c /\ \A j \in 1..(i - 1) : CharAt(s, j) # c
    ELSE 0

\* s.split(sep) for a one-character sep
RECURSIVE SplitOn(_, _)
SplitOn(s, sep) ==
    LET i == Find(s, sep)
    IN  IF i = 0 THEN <<s>>
        ELSE <<SubSeq(s, 1, i - 1)>> \o SplitOn(SubSeq(s, i + 1, Len(s)), sep)

\* s.split(): the maximal runs of non-whitespace characters
RECURSIVE SplitWs(_)
SplitWs(s) ==
    LET t == LStrip(s)
        n == IF \E i \in 1..Len(t) : IsSpace(CharAt(t, i))
             THEN Find(t, " ") - 1 ELSE Len(t)
    IN  IF Len(t) = 0 THEN <<>>
        ELSE <<SubSeq(t, 1, n)>> \o SplitWs(SubSeq(t, n + 1, Len(t)))

\* [p.strip() for p in parts]
RECURSIVE StripAll(_)
StripAll(parts) ==
    IF Len(parts) = 0 THEN <<>>
    ELSE <<Strip(Head(parts))>> \o StripAll(Tail(parts))

\* s[:n]
Take(s, n) == SubSeq(s, 1, IF Len(s) < n THEN Len(s) ELSE n)

\* repr(s) of a str without quotes, backslashes or unprintable characters
Repr(s) == "'" \o s \o "'"

LowerLetters == "abcdefghijklmnopqrstuvwxyz"

UpperLetters == "ABCDEFGHIJKLMNOPQRSTUVWXYZ"

\* c.upper() for one character: U+00DF ("$") has the two-character upper case "SS"
UpperChar(c) ==
    IF c = "$" THEN "SS"
    ELSE IF Contains(LowerLetters, c) THEN CharAt(UpperLetters, Find(LowerLetters, c))
    ELSE c

\* str.upper()
RECURSIVE Upper(_)
Upper(s) ==
    IF Len(s) = 0 THEN ""
    ELSE IF Len(s) = 1 THEN UpperChar(s)
    ELSE Upper(SubSeq(s, 1, Len(s) \div 2)) \o Upper(SubSeq(s, Len(s) \div 2 + 1, Len(s)))

-----------------------------------------------------------------------------
(* float(str) *)

DigitChars == "0123456789"

IsDigit(c) == Contains(DigitChars, c)

AllDigits(s) == \A i \in 1..Len(s) : IsDigit(CharAt(s, i))

RECURSIVE DigitsValue(_)
DigitsValue(s) ==
    IF Len(s) = 0 THEN 0
    ELSE 10 * DigitsValue(SubSeq(s, 1, Len(s) - 1))
         + (Find(DigitChars, CharAt(s, Len(s))) - 1)

RECURSIVE Pow10(_)
Pow10(n) == IF n = 0 THEN 1 ELSE 10 * Pow10(n - 1)

\* the part of a literal after its sign
Unsigned(t) == IF Len(t) > 0 /\ Head(t) \in {"-", "+"} THEN Tail(t) ELSE t

IntPart(u) == IF Contains(u, ".") THEN SubSeq(u, 1, Find(u, ".") - 1) ELSE u

FracPart(u) == IF Contains(u, ".") THEN SubSeq(u, Find(u, ".") + 1, Len(u)) ELSE ""

\* the strings float() accepts, among those built of digits, sign, point and
\* blanks: [sign] digits [. [digits]] or [sign] . digits, blanks around it
IsFloatLiteral(s) ==
    LET u == Unsigned(Strip(s))
    IN  /\ AllDigits(IntPart(u))
        /\ AllDigits(FracPart(u))
        /\ Len(IntPart(u)) + Len(FracPart(u)) >= 1

\* float(s): the value, or ValueError
Float(s) ==
    LET t == Strip(s)
        u == Unsigned(t)
        mag == DigitsValue(IntPart(u)) * Pow10(Len(FracPart(u)))
               + DigitsValue(FracPart(u))
    IN  IF IsFloatLiteral(s)
        THEN Ok([num |-> IF Len(t) > 0 /\ Head(t) = "-" THEN 0 - mag ELSE mag,
                 den |-> Pow10(Len(FracPart(u)))])
        ELSE Raise("ValueError", "could not convert string to float: " \o Repr(s))

-----------------------------------------------------------------------------
(* Config loader: src/src/aprox.py *)

\* os.getenv(name)
GetEnv(e, name) == IF name \in DOMAIN e THEN Some(e[name]) ELSE None

Blank(opt) == opt = None \/ Strip(opt[1]) = ""

_require_env(e, name) ==
    LET value == GetEnv(e, name)
    IN  IF Blank(value)
        THEN Raise("EnvironmentError", "Missing environment variable: " \o name)
        ELSE Ok(value[1])

_require_float_env(e, name) ==
    Bind(_require_env(e, name), LAMBDA value :
        IF ~value.ok THEN value
        ELSE Bind(Float(value.val), LAMBDA number :
            IF number.ok THEN number
            ELSE Raise("EnvironmentError",
                       "Invalid float for " \o name \o ": " \o Repr(value.val))))

\* the parts _parse_latlng_pair splits a value into: on commas when it has
\* one, each part trimmed, on whitespace when it has none
PairParts(value) ==
    Bind(Strip(value), LAMBDA cleaned :
        IF Contains(cleaned, ",")
        THEN StripAll(SplitOn(cleaned, ","))
        ELSE SplitWs(cleaned))

\* a variant that takes the first two parts of however many there are
_parse_latlng_pair_FirstTwo(value) ==
    Bind(PairParts(value), LAMBDA parts :
        IF Len(parts) < 2
        THEN Raise("EnvironmentError",
                   "Invalid coordinate pair: " \o Repr(value) \o ". Expected 'lat,lng'.")
        ELSE Bind(<<Float(parts[1]), Float(parts[2])>>, LAMBDA numbers :
            IF ~numbers[1].ok \/ ~numbers[2].ok
            THEN Raise("EnvironmentError",
                       "Invalid coordinate numbers in: " \o Repr(value))
            ELSE Ok(<<numbers[1].val, numbers[2].val>>)))

_parse_latlng_pair(value) ==
    Bind(PairParts(value), LAMBDA parts :
        IF Len(parts) # 2
        THEN Raise("EnvironmentError",
                   "Invalid coordinate pair: " \o Repr(value) \o ". Expected 'lat,lng'.")
        ELSE Bind(<<Float(parts[1]), Float(parts[2])>>, LAMBDA numbers :
            IF ~numbers[1].ok \/ ~numbers[2].ok
            THEN Raise("EnvironmentError",
                       "Invalid coordinate numbers in: " \o Repr(value))
            ELSE Ok(<<numbers[1].val, numbers[2].val>>)))

_read_coords(e, prefix) ==
    Bind(GetEnv(e, prefix), LAMBDA combined :
        IF ~Blank(combined) THEN _parse_latlng_pair(combined[1])
        ELSE Bind(_require_float_env(e, prefix \o "_LAT"), LAMBDA lat :
            IF ~lat.ok THEN lat
            ELSE Bind(_require_float_env(e, prefix \o "_LNG"), LAMBDA lng :
                IF ~lng.ok THEN lng
                ELSE Ok(<<lat.val, lng.val>>))))

\* one route of load_routes: its name, then its origin, then its destination
LoadRoute(e, n) ==
    Bind(_require_env(e, "ROUTE" \o n \o "_NAME"), LAMBDA name :
        IF ~name.ok THEN name
        ELSE Bind(_read_coords(e, "ROUTE" \o n \o "_ORIGIN"), LAMBDA orig :
            IF ~orig.ok THEN orig
            ELSE Bind(_read_coords(e, "ROUTE" \o n \o "_DEST"), LAMBDA dest :
                IF ~dest.ok THEN dest
                ELSE Ok([name |-> name.val,
                         lat1 |-> orig.val[1], lng1 |-> orig.val[2],
                         lat2 |-> dest.val[1], lng2 |-> dest.val[2]]))))

load_routes(e) ==
    Bind(LoadRoute(e, "1"), LAMBDA r1 :
        IF ~r1.ok THEN r1
        ELSE Bind(LoadRoute(e, "2"), LAMBDA r2 :
            IF ~r2.ok THEN r2
            ELSE Ok(<<r1.val, r2.val>>)))

load_api_key(e, file) ==
    LET api_key == GetEnv(e, "GOOGLE_MAPS_API_KEY")
    IN  IF api_key # None /\ api_key[1] # "" THEN Ok(Strip(api_key[1]))
        ELSE IF file = None
        THEN Raise("FileNotFoundError", "[Errno 2] No such file or directory: 'api'")
        ELSE Ok(Strip(file[1]))

-----------------------------------------------------------------------------
(* time.localtime and time.strftime("%Y-%m-%d %H:%M:%S", ...) *)

\* The largest timestamp the platform's localtime() converts. The platform's
\* own limit (the year must fit a C int) is beyond TLC's integers; the model
\* keeps the limit and scales it.
LocaltimeMax == 2000000000

InLocaltimeRange(ts) == ts <= LocaltimeMax

LocaltimeError == Raise("OverflowError", "timestamp out of range for platform time_t")

Pad2(n) == IF n < 10 THEN "0" \o ToString(n) ELSE ToString(n)

\* the proleptic Gregorian date of a day number (days since 1970-01-01)
CivilFromDays(days) ==
    LET z   == days + 719468
        era == z \div 146097
        doe == z - era * 146097
        yoe == (doe - doe \div 1460 + doe \div 36524 - doe \div 146096) \div 365
        doy == doe - (365 * yoe + yoe \div 4 - yoe \div 100)
        mp  == (5 * doy + 2) \div 153
        d   == doy - (153 * mp + 2) \div 5 + 1
        m   == IF mp < 10 THEN mp + 3 ELSE mp - 9
        y   == yoe + era * 400 + (IF m <= 2 THEN 1 ELSE 0)
    IN  [year |-> y, month |-> m, day |-> d]

\* time.strftime("%Y-%m-%d %H:%M:%S", time.localtime(ts)) in the zone 'zone'
\* seconds east of UTC, for ts in localtime's range
FormatLocal(ts, zone) ==
    LET local == ts + zone
        date  == CivilFromDays(local \div 86400)
        secs  == local % 86400
    IN  ToString(date.year) \o "-" \o Pad2(date.month) \o "-" \o Pad2(date.day)
        \o " " \o Pad2(secs \div 3600) \o ":" \o Pad2((secs % 3600) \div 60)
        \o ":" \o Pad2(secs % 60)

-----------------------------------------------------------------------------
(* Route fetcher and parser: src/src/aprox.py *)

\* dict.get(key)
Get(d, key) == IF key \in DOMAIN d THEN Some(d[key]) ELSE None

\* the truth value of an optional dict or list: None, {} and [] are false
Truthy(opt) == opt # None /\ DOMAIN opt[1] # {}

\* a or b
PyOr(a, b) == IF Truthy(a) THEN a ELSE b

\* str(x) of an optional str, as an f-string formats it
StrOf(opt) == IF opt = None THEN "None" ELSE opt[1]

\* the digits of n, left-padded with zeros to 'width' digits
RECURSIVE ZeroPad(_, _)
ZeroPad(str, width) == IF Len(str) < width THEN ZeroPad("0" \o str, width) ELSE str

RECURSIVE StripZeros(_)
StripZeros(str) ==
    IF Len(str) > 0 /\ CharAt(str, Len(str)) = "0"
    THEN StripZeros(SubSeq(str, 1, Len(str) - 1))
    ELSE str

RECURSIVE Log10(_)
Log10(d) == IF d <= 1 THEN 0 ELSE 1 + Log10(d \div 10)

\* str(f) of a float in fixed notation: "18.41", "-66.0"
FloatStr(f) ==
    LET mag  == IF f.num < 0 THEN 0 - f.num ELSE f.num
        frac == StripZeros(ZeroPad(ToString(mag % f.den), Log10(f.den)))
    IN  (IF f.num < 0 THEN "-" ELSE "") \o ToString(mag \div f.den) \o "."
        \o (IF frac = "" THEN "0" ELSE frac)

\* the query parameters get_route sends
RequestParams(route, api_key, departure, e) ==
    [origin         |-> FloatStr(route.lat1) \o "," \o FloatStr(route.lng1),
     destination    |-> FloatStr(route.lat2) \o "," \o FloatStr(route.lng2),
     mode           |-> "driving",
     departure_time |-> departure,
     traffic_model  |-> IF "TRAFFIC_MODEL" \in DOMAIN e
                        THEN e["TRAFFIC_MODEL"] ELSE "best_guess",
     key            |-> api_key]

\* get_route once the network has answered: 'net' is what requests.get met
get_route(net) ==
    CASE net.kind = "unreachable" ->
            Raise("ConnectionError", net.text)
      [] net.kind = "not_json" ->
            Raise("JSONDecodeError", "Expecting value: line 1 column 1 (char 0)")
      [] net.kind = "json" -> Ok(net.data)

\* a variant that prefers the base duration
DurationObj_PreferBase(leg) == PyOr(Get(leg, "duration"), Get(leg, "duration_in_traffic"))

\* leg.get('duration_in_traffic') or leg.get('duration')
DurationObj(leg) == PyOr(Get(leg, "duration_in_traffic"), Get(leg, "duration"))

\* the success branch of parse_route, from the first leg on
ParseLeg(leg, departure, zone) ==
    LET duration_obj == DurationObj(leg)
        arrival_ts   == departure + duration_obj[1].value
    IN  IF "distance" \notin DOMAIN leg THEN Raise("KeyError", "'distance'")
        ELSE IF "text" \notin DOMAIN leg.distance THEN Raise("KeyError", "'text'")
        ELSE IF duration_obj = None
        THEN Raise("TypeError", "'NoneType' object is not subscriptable")
        ELSE IF "text" \notin DOMAIN duration_obj[1] THEN Raise("KeyError", "'text'")
        ELSE IF "value" \notin DOMAIN duration_obj[1] THEN Raise("KeyError", "'value'")
        ELSE IF ~InLocaltimeRange(arrival_ts) THEN LocaltimeError
        ELSE Ok(<<leg.distance.text, duration_obj[1].text,
                  FormatLocal(arrival_ts, zone)>>)

\* a variant whose success test looks at the status alone
parse_route_StatusOnly(d, departure, zone) ==
    LET routes == Get(d, "routes")
    IN  IF Get(d, "status") = Some("OK")
        THEN IF routes = None THEN Raise("KeyError", "'routes'")
             ELSE IF Len(routes[1]) = 0 THEN Raise("IndexError", "list index out of range")
             ELSE IF "legs" \notin DOMAIN routes[1][1] THEN Raise("KeyError", "'legs'")
             ELSE IF Len(routes[1][1].legs) = 0
             THEN Raise("IndexError", "list index out of range")
             ELSE ParseLeg(routes[1][1].legs[1], departure, zone)
        ELSE Raise("ValueError",
                   "API error: " \o StrOf(Get(d, "status")) \o ": "
                   \o (IF "error_message" \in DOMAIN d THEN d.error_message ELSE ""))

parse_route(d, departure, zone) ==
    LET routes == Get(d, "routes")
    IN  IF Get(d, "status") = Some("OK") /\ routes # None /\ Len(routes[1]) > 0
        THEN IF "legs" \notin DOMAIN routes[1][1] THEN Raise("KeyError", "'legs'")
             ELSE IF Len(routes[1][1].legs) = 0
             THEN Raise("IndexError", "list index out of range")
             ELSE ParseLeg(routes[1][1].legs[1], departure, zone)
        ELSE Raise("ValueError",
                   "API error: " \o StrOf(Get(d, "status")) \o ": "
                   \o (IF "error_message" \in DOMAIN d THEN d.error_message ELSE ""))

-----------------------------------------------------------------------------
(* The environments load_routes is applied to *)

\* longest coordinate string drawn for a combined "lat,lng" variable
MaxCoordLen == 4

CoordAlphabet == {"1", "-", ".", ",", " ", "x"}

RECURSIVE StringsUpTo(_)
StringsUpTo(n) ==
    IF n = 0 THEN {""}
    ELSE StringsUpTo(n - 1)
         \cup {str \o c : str \in {t \in StringsUpTo(n - 1) : Len(t) = n - 1},
                          c \in CoordAlphabet}

CoordStrings == StringsUpTo(MaxCoordLen)

\* a complete environment: two routes, the first with combined variables, the
\* second with one combined and one split pair
BaseEnv ==
    [ROUTE1_NAME       |-> "Normal",
     ROUTE1_ORIGIN     |-> "18.41,-66.07",
     ROUTE1_DEST       |-> "18.25,-66.01",
     ROUTE2_NAME       |-> "Expreso",
     ROUTE2_ORIGIN     |-> "18.41 -66.07",
     ROUTE2_DEST_LAT   |-> "18.25",
     ROUTE2_DEST_LNG   |-> " -66.01 ",
     GOOGLE_MAPS_API_KEY |-> "ABC123"]

\* e with variable 'name' set to an optional value
SetEnv(e, name, opt) ==
    [k \in (DOMAIN e \ {name}) \cup (IF opt = None THEN {} ELSE {name}) |->
        IF k = name THEN opt[1] ELSE e[k]]

CoordPrefixes == {"ROUTE1_ORIGIN", "ROUTE1_DEST", "ROUTE2_ORIGIN", "ROUTE2_DEST"}

\* values drawn for a separate _LAT or _LNG variable, and for a route's name
SplitValues == {None, Some(" "), Some("18.4"), Some("-111"), Some("1,1"), Some("x")}

NameValues == {None, Some(""), Some(" "), Some("Normal")}

\* the environments of the loader on its own: BaseEnv with one coordinate
\* given as any combined string, or as a split pair, or with one name changed
ConfigEnvs ==
    {SetEnv(SetEnv(SetEnv(BaseEnv, p \o "_LAT", None), p \o "_LNG", None), p, Some(c)) :
        p \in CoordPrefixes, c \in CoordStrings}
    \cup {SetEnv(SetEnv(SetEnv(BaseEnv, p, comb), p \o "_LAT", lat), p \o "_LNG", lng) :
            p \in CoordPrefixes, comb \in {None, Some(" ")}, lat \in SplitValues,
            lng \in SplitValues}
    \cup {SetEnv(BaseEnv, n, v) : n \in {"ROUTE1_NAME", "ROUTE2_NAME"}, v \in NameValues}

-----------------------------------------------------------------------------
(* Values of the variables a specification does not use *)

NoConfig == loaded = None

NoParse == data = None /\ parsed = None

NoRun ==
    /\ in_init = FALSE /\ refresh_seconds = 0 /\ timers = <<>>
    /\ line1 = "" /\ line2 = "" /\ status = ""
    /\ lines = <<>> /\ route_idx = 0 /\ requests = <<>> /\ caught = None
    /\ cycle = 0 /\ stdout = <<>>

runVars == <<in_init, refresh_seconds, timers, line1, line2, status, lines,
             route_idx, requests, caught, cycle, stdout>>

-----------------------------------------------------------------------------
(* The config loader on its own: load_routes applied to an environment *)

ConfigInit ==
    /\ env \in ConfigEnvs
    /\ apiFile = None /\ tz = 0 /\ departure_time = 0
    /\ pc = "load_routes"
    /\ NoConfig /\ NoParse /\ NoRun

LoadRoutes ==
    /\ pc = "load_routes"
    /\ loaded' = Some(load_routes(env))
    /\ pc' = "loaded"
    /\ UNCHANGED <<env, apiFile, tz, data, departure_time, parsed, runVars>>

ConfigNext == LoadRoutes

SpecConfig == ConfigInit /\ [][ConfigNext]_vars

-----------------------------------------------------------------------------
(* The responses parse_route is applied to *)

EmptyDict == [k \in {} |-> k]

\* {key: value} when the value is given, {} when it is not
Field(key, opt) == IF opt = None THEN EmptyDict ELSE [k \in {key} |-> opt[1]]

RECURSIVE Repeat(_, _)
Repeat(str, n) ==
    IF n = 0 THEN ""
    ELSE IF n = 1 THEN str
    ELSE Repeat(str, n \div 2) \o Repeat(str, n - n \div 2)

DistanceValues ==
    {None, Some([value |-> 27000]), Some([text |-> "27.0 km", value |-> 27000])}

TrafficValues ==
    {None, Some(EmptyDict), Some([text |-> "25 mins"]),
     Some([text |-> "25 mins", value |-> 1500])}

DurationValues ==
    {None, Some(EmptyDict), Some([text |-> "21 mins", value |-> 1260])}

Legs ==
    {[end_address |-> "Caguas"] @@ Field("distance", dist)
        @@ Field("duration_in_traffic", dit) @@ Field("duration", dur) :
        dist \in DistanceValues, dit \in TrafficValues, dur \in DurationValues}

RouteObjects ==
    {[summary |-> "PR-52"], [summary |-> "PR-52", legs |-> <<>>]}
    \cup {[summary |-> "PR-52", legs |-> <<leg>>] : leg \in Legs}

RouteLists == {None, Some(<<>>)} \cup {Some(<<r>>) : r \in RouteObjects}

StatusValues == {None, Some("OK"), Some("ZERO_RESULTS"), Some("REQUEST_DENIED")}

\* error_message texts: none, empty, a short one, and two longer than the
\* display's error line, one of them of sharp s
ErrorMessages ==
    {None, Some(""), Some("The provided API key is invalid."),
     Some(Repeat("no route ", 9)), Some(Repeat("$", 60))}

Responses ==
    {Field("status", st) @@ Field("error_message", em) @@ Field("routes", rs)
        @@ [geocoded_waypoints |-> <<>>] :
        st \in StatusValues, em \in ErrorMessages, rs \in RouteLists}

\* departure timestamps: an ordinary one, one so late that the arrival leaves
\* localtime's range, and one that is outside the range itself
DepartureTimes == {1000000000, LocaltimeMax - 1300, LocaltimeMax + 1000}

TimeZones == {0 - 14400, 0}

-----------------------------------------------------------------------------
(* The route parser on its own: parse_route applied to a response *)

ParseInit ==
    /\ data \in {Some(d) : d \in Responses}
    /\ departure_time \in DepartureTimes
    /\ tz \in TimeZones
    /\ parsed = None
    /\ env = BaseEnv /\ apiFile = None
    /\ pc = "parse_route"
    /\ NoConfig /\ NoRun

ParseRoute ==
    /\ pc = "parse_route"
    /\ parsed' = Some(parse_route(data[1], departure_time, tz))
    /\ pc' = "parsed"
    /\ UNCHANGED <<env, apiFile, tz, loaded, data, departure_time, runVars>>

ParseNext == ParseRoute

SpecParse == ParseInit /\ [][ParseNext]_vars

-----------------------------------------------------------------------------
(* Properties of the route parser, under SpecParse *)

HasSubstring(str, sub) ==
    \E i \in 0..(Len(str) - Len(sub)) : SubSeq(str, i + 1, i + Len(sub)) = sub

\* the response reports success and lists at least one route
ReportsSuccess(d) ==
    /\ "status" \in DOMAIN d /\ d.status = "OK"
    /\ "routes" \in DOMAIN d /\ Len(d.routes) >= 1

\* the first leg of a response that has one
HasFirstLeg(d) ==
    /\ ReportsSuccess(d)
    /\ "legs" \in DOMAIN d.routes[1] /\ Len(d.routes[1].legs) >= 1

FirstLeg(d) == d.routes[1].legs[1]

\* the result names the duration in 'field' of leg: its text, and the arrival
\* departure_time + its value
UsesDuration(result, leg, field) ==
    /\ field \in DOMAIN leg
    /\ {"text", "value"} \subseteq DOMAIN leg[field]
    /\ result[2] = leg[field].text
    /\ result[3] = FormatLocal(departure_time + leg[field].value, tz)

\* C4: parse_route is total: for every response and departure timestamp it
\* returns a Route Result or fails with the RouteError kind (ValueError), never
\* with another error, also when the first route has no leg or the leg lacks
\* its distance or every duration.
C4_ParseRouteTotal ==
    parsed # None =>
        \/ parsed[1].ok /\ Len(parsed[1].val) = 3
        \/ ~parsed[1].ok /\ parsed[1].exc.type = "ValueError"

\* C5: when the status is not "OK", or the routes list is absent or empty,
\* parse_route fails with ValueError, and the message holds the provider's
\* status string and its error_message text verbatim.
C5_ErrorCarriesStatusAndMessage ==
    (parsed # None /\ ~ReportsSuccess(data[1])) =>
        /\ ~parsed[1].ok
        /\ parsed[1].exc.type = "ValueError"
        /\ "status" \in DOMAIN data[1] =>
              HasSubstring(parsed[1].exc.msg, data[1].status)
        /\ "error_message" \in DOMAIN data[1] =>
              HasSubstring(parsed[1].exc.msg, data[1].error_message)

\* C5 happens: a ZERO_RESULTS response with an error_message has been parsed
C5_Witness ==
    /\ parsed # None /\ ~parsed[1].ok
    /\ "status" \in DOMAIN data[1] /\ data[1].status = "ZERO_RESULTS"
    /\ "error_message" \in DOMAIN data[1] /\ Len(data[1].error_message) > 0
    /\ "routes" \in DOMAIN data[1] /\ Len(data[1].routes) = 0

\* C6 as claimed: a successful parse uses duration_in_traffic whenever the leg
\* has that field, and the base duration only otherwise; the duration text and
\* the arrival departure_time + value come from that one field.
C6_TrafficWheneverPresent ==
    (parsed # None /\ parsed[1].ok) =>
        /\ HasFirstLeg(data[1])
        /\ IF "duration_in_traffic" \in DOMAIN FirstLeg(data[1])
           THEN UsesDuration(parsed[1].val, FirstLeg(data[1]), "duration_in_traffic")
           ELSE UsesDuration(parsed[1].val, FirstLeg(data[1]), "duration")

\* C6 as amended: a successful parse uses duration_in_traffic whenever the leg
\* has that field and it is not empty, and the base duration otherwise; the
\* duration text and the arrival departure_time + value come from that one
\* field.
C6_TrafficWheneverNonEmpty ==
    (parsed # None /\ parsed[1].ok) =>
        /\ HasFirstLeg(data[1])
        /\ IF /\ "duration_in_traffic" \in DOMAIN FirstLeg(data[1])
              /\ DOMAIN FirstLeg(data[1]).duration_in_traffic # {}
           THEN UsesDuration(parsed[1].val, FirstLeg(data[1]), "duration_in_traffic")
           ELSE UsesDuration(parsed[1].val, FirstLeg(data[1]), "duration")

\* C6 happens: a leg with both durations has been parsed with success
C6_Witness ==
    /\ parsed # None /\ parsed[1].ok
    /\ {"duration_in_traffic", "duration"} \subseteq DOMAIN FirstLeg(data[1])
    /\ FirstLeg(data[1]).duration_in_traffic = [text |-> "25 mins", value |-> 1500]
    /\ departure_time = 1000000000
    /\ parsed[1].val[3] = FormatLocal(1000001500, tz)

-----------------------------------------------------------------------------
(* Properties of the config loader, under SpecConfig *)

\* s, trimmed, is two numbers separated by one comma or, without a comma, by
\* whitespace
WellFormedPair(str) ==
    LET t == Strip(str)
    IN  IF Contains(t, ",")
        THEN \E i \in 1..Len(t) :
                /\ CharAt(t, i) = ","
                /\ ~Contains(SubSeq(t, i + 1, Len(t)), ",")
                /\ ~Contains(SubSeq(t, 1, i - 1), ",")
                /\ IsFloatLiteral(SubSeq(t, 1, i - 1))
                /\ IsFloatLiteral(SubSeq(t, i + 1, Len(t)))
        ELSE \E i \in 1..Len(t) :
                /\ IsSpace(CharAt(t, i))
                /\ IsFloatLiteral(SubSeq(t, 1, i - 1))
                /\ IsFloatLiteral(SubSeq(t, i + 1, Len(t)))

\* the coordinate prefixes whose combined variable is set and not blank
CombinedSet == {p \in CoordPrefixes : p \in DOMAIN env /\ Strip(env[p]) # ""}

IsFloatValue(f) == DOMAIN f = {"num", "den"} /\ f.num \in Int /\ f.den \in Nat \ {0}

CompleteRoute(r) ==
    /\ DOMAIN r = {"name", "lat1", "lng1", "lat2", "lng2"}
    /\ Strip(r.name) # ""
    /\ \A k \in {"lat1", "lng1", "lat2", "lng2"} : IsFloatValue(r[k])

\* C7: a malformed combined coordinate string makes _parse_latlng_pair, and
\* with it load_routes, fail with the configuration error (EnvironmentError);
\* load_routes returns exactly two complete routes or fails.
C7_MalformedCoordinatesFail ==
    loaded # None =>
        /\ \A p \in CombinedSet :
              ~WellFormedPair(env[p]) =>
                  /\ ~_parse_latlng_pair(env[p]).ok
                  /\ _parse_latlng_pair(env[p]).exc.type = "EnvironmentError"
                  /\ ~loaded[1].ok
                  /\ loaded[1].exc.type = "EnvironmentError"
        /\ loaded[1].ok =>
              /\ Len(loaded[1].val) = 2
              /\ \A i \in 1..2 : CompleteRoute(loaded[1].val[i])

\* C7 happens: load_routes has run on an environment whose ROUTE2_DEST has two
\* commas, after every earlier variable was read with success
C7_Witness ==
    /\ loaded # None /\ ~loaded[1].ok
    /\ "ROUTE2_DEST" \in CombinedSet
    /\ Len(SplitOn(Strip(env["ROUTE2_DEST"]), ",")) = 3
    /\ HasSubstring(loaded[1].exc.msg, "Invalid coordinate pair")

LatitudeInRange(f) == 0 - 90 * f.den <= f.num /\ f.num <= 90 * f.den

LongitudeInRange(f) == 0 - 180 * f.den <= f.num /\ f.num <= 180 * f.den

\* C9: every coordinate load_routes returns has its latitude in [-90, 90] and
\* its longitude in [-180, 180].
C9_CoordinatesInRange ==
    (loaded # None /\ loaded[1].ok) =>
        \A i \in 1..2 :
            /\ LatitudeInRange(loaded[1].val[i].lat1)
            /\ LongitudeInRange(loaded[1].val[i].lng1)
            /\ LatitudeInRange(loaded[1].val[i].lat2)
            /\ LongitudeInRange(loaded[1].val[i].lng2)

-----------------------------------------------------------------------------
(* What the running programs meet: environments, the network, the clock *)

\* most refreshes a run of the display starts
MaxCycles == 2

\* environments of a run: complete; ROUTE1_DEST malformed and of sharp s;
\* ROUTE2_NAME missing
RunEnvs ==
    {BaseEnv,
     SetEnv(BaseEnv, "ROUTE1_DEST", Some(Repeat("$", 60))),
     SetEnv(BaseEnv, "ROUTE2_NAME", None),
     SetEnv(BaseEnv, "GOOGLE_MAPS_API_KEY", None)}

\* values of DISPLAY_REFRESH_SECONDS
RefreshValues == {None, Some(""), Some("60"), Some("soon")}

ApiFiles == {None, Some("ABC123 ")}

GoodLeg ==
    [end_address |-> "Caguas",
     distance |-> [text |-> "27.0 km", value |-> 27000],
     duration_in_traffic |-> [text |-> "25 mins", value |-> 1500],
     duration |-> [text |-> "21 mins", value |-> 1260]]

BaseOnlyLeg ==
    [end_address |-> "Caguas",
     distance |-> [text |-> "27.0 km", value |-> 27000],
     duration |-> [text |-> "21 mins", value |-> 1260]]

ResponseOf(st, em, rs) ==
    Field("status", st) @@ Field("error_message", em) @@ Field("routes", rs)
    @@ [geocoded_waypoints |-> <<>>]

\* responses of a run: two good ones, no route, a refusal with a long message,
\* a refusal with a message of sharp s, and a success without a leg
RunResponses ==
    {ResponseOf(Some("OK"), None, Some(<<[summary |-> "PR-52", legs |-> <<GoodLeg>>]>>)),
     ResponseOf(Some("OK"), None, Some(<<[summary |-> "PR-52", legs |-> <<BaseOnlyLeg>>]>>)),
     ResponseOf(Some("ZERO_RESULTS"), None, Some(<<>>)),
     ResponseOf(Some("REQUEST_DENIED"), Some(Repeat("no route ", 9)), Some(<<>>)),
     ResponseOf(Some("REQUEST_DENIED"), Some(Repeat("$", 60)), None),
     ResponseOf(Some("OK"), None, Some(<<[summary |-> "PR-52", legs |-> <<>>]>>))}

\* what requests.get meets: no connection, a body that is no JSON, a response
NetOutcomes ==
    {[kind |-> "unreachable",
      text |-> "HTTPSConnectionPool(host='maps.googleapis.com', port=443): "
               \o "Max retries exceeded with url: /maps/api/directions/json"],
     [kind |-> "not_json"]}
    \cup {[kind |-> "json", data |-> d] : d \in RunResponses}

\* the wall clock (time.time()) when the n-th refresh ends: the start of the
\* process plus the delays waited so far
WallClock(n, delay) == 1000000000 + n * delay

-----------------------------------------------------------------------------
(* int(str) *)

IsIntLiteral(str) ==
    LET u == Unsigned(Strip(str)) IN Len(u) >= 1 /\ AllDigits(u)

IntOf(str) ==
    LET t == Strip(str)
    IN  IF Len(t) > 0 /\ Head(t) = "-" THEN 0 - DigitsValue(Unsigned(t))
        ELSE DigitsValue(Unsigned(t))

-----------------------------------------------------------------------------
(* Display mode: src/src/dysplay.py *)

REFRESH_SECONDS_DEFAULT == 120

\* the bounded length of the error line, str(exc)[:80]
ErrorLineLength == 80

ErrorBanner == "ERROR FETCHING ROUTES"

\* what the prompt's user types
PromptInputs ==
    {"", "soon", "1000000000", ToString(LocaltimeMax - 1300),
     ToString(LocaltimeMax + 1000)}

prompt_unix_timestamp(user_input, now) ==
    IF Strip(user_input) = "" THEN now
    ELSE IF IsIntLiteral(user_input) THEN IntOf(user_input)
    ELSE now

\* LedDisplayApp.__init__: refresh_seconds from DISPLAY_REFRESH_SECONDS
RefreshSeconds(e) ==
    LET refresh_env == GetEnv(e, "DISPLAY_REFRESH_SECONDS")
    IN  IF refresh_env = None \/ refresh_env[1] = "" THEN REFRESH_SECONDS_DEFAULT
        ELSE IF IsIntLiteral(refresh_env[1]) THEN IntOf(refresh_env[1])
        ELSE REFRESH_SECONDS_DEFAULT

\* fetch_route_lines' line for one route
RouteLine(name, duration) == Upper(name \o "  SJ --> Cag  |  " \o duration)

\* the status label's text
StatusText(departure, refreshed, zone) ==
    "DEPARTURE: " \o FormatLocal(departure, zone) \o "  |  REFRESHED: "
    \o FormatLocal(refreshed, zone)

\* a variant of the except clause that arms a timer of its own before the
\* common one
HandleError_ArmsTwice(exc) ==
    [line1  |-> ErrorBanner,
     line2  |-> Upper(Take(exc.msg, ErrorLineLength)),
     status |-> IF InLocaltimeRange(departure_time)
                THEN StatusText(departure_time,
                                WallClock(cycle', refresh_seconds'), tz)
                ELSE status,
     raised |-> ~InLocaltimeRange(departure_time),
     arms   |-> IF InLocaltimeRange(departure_time) THEN 2 ELSE 0,
     caught |-> Some(exc)]

\* update_lines' except clause and what follows it: the labels' texts, whether
\* the clause itself raised (time.localtime, before the status is set), and how
\* many times root.after is called
HandleError(exc) ==
    [line1  |-> ErrorBanner,
     line2  |-> Upper(Take(exc.msg, ErrorLineLength)),
     status |-> IF InLocaltimeRange(departure_time)
                THEN StatusText(departure_time,
                                WallClock(cycle', refresh_seconds'), tz)
                ELSE status,
     raised |-> ~InLocaltimeRange(departure_time),
     arms   |-> IF InLocaltimeRange(departure_time) THEN 1 ELSE 0,
     caught |-> Some(exc)]

\* update_lines' try clause after fetch_route_lines returned ls, and what
\* follows it; time.localtime's error is caught by the except clause
ShowLines(ls) ==
    IF InLocaltimeRange(departure_time)
    THEN [line1  |-> ls[1],
          line2  |-> ls[2],
          status |-> StatusText(departure_time,
                                WallClock(cycle', refresh_seconds'), tz),
          raised |-> FALSE,
          arms   |-> 1,
          caught |-> None]
    ELSE HandleError(LocaltimeError.exc)

RECURSIVE Arm(_, _, _)
Arm(pending, n, ms) == IF n = 0 THEN pending ELSE Arm(Append(pending, ms), n - 1, ms)

\* the end of update_lines: the labels are set and root.after is called, or the
\* exception leaves update_lines; out of __init__ it ends the process, out of a
\* timer callback Tk reports it and the event loop goes on
EndUpdate(result, pending, from_init) ==
    \E outcome \in {result} :
        /\ line1' = outcome.line1
        /\ line2' = outcome.line2
        /\ status' = outcome.status
        /\ caught' = outcome.caught
        /\ timers' = Arm(pending, outcome.arms, refresh_seconds' * 1000)
        /\ pc' = IF outcome.raised /\ from_init THEN "crashed" ELSE "mainloop"
        /\ in_init' = FALSE
        /\ route_idx' = 0

\* update_lines up to its first request: fetch_route_lines loads the key and
\* the routes and asks for the first route
BeginUpdate(pending, from_init) ==
    \E api_key \in {load_api_key(env, apiFile)} :
    \E routes \in {IF api_key.ok THEN load_routes(env) ELSE api_key} :
        /\ cycle' = cycle + 1
        /\ loaded' = IF api_key.ok THEN Some(routes) ELSE loaded
        /\ lines' = <<>>
        /\ IF ~routes.ok
           THEN /\ EndUpdate(HandleError(routes.exc), pending, from_init)
                /\ requests' = <<>>
           ELSE /\ pc' = "get_route"
                /\ route_idx' = 1
                /\ requests' = <<RequestParams(routes.val[1], api_key.val,
                                               departure_time, env)>>
                /\ timers' = pending
                /\ caught' = None
                /\ in_init' = from_init
                /\ UNCHANGED <<line1, line2, status>>

DisplayInit ==
    /\ env \in {SetEnv(e, "DISPLAY_REFRESH_SECONDS", r) :
                    e \in RunEnvs, r \in RefreshValues}
    /\ apiFile \in ApiFiles
    /\ tz \in TimeZones
    /\ departure_time = 0
    /\ pc = "prompt"
    /\ NoConfig /\ NoParse /\ NoRun

\* main: the user answers prompt_unix_timestamp
Prompt ==
    /\ pc = "prompt"
    /\ \E user_input \in PromptInputs :
          departure_time' = prompt_unix_timestamp(user_input, WallClock(0, 0))
    /\ pc' = "construct"
    /\ UNCHANGED <<env, apiFile, tz, loaded, data, parsed, runVars>>

\* LedDisplayApp.__init__, which ends by calling update_lines
Construct ==
    /\ pc = "construct"
    /\ refresh_seconds' = RefreshSeconds(env)
    /\ UNCHANGED <<env, apiFile, tz, data, departure_time, parsed, stdout>>
    /\ BeginUpdate(timers, TRUE)

\* the event loop runs the pending callback: update_lines
TimerExpiry ==
    /\ pc = "mainloop"
    /\ Len(timers) >= 1
    /\ cycle < MaxCycles
    /\ UNCHANGED <<env, apiFile, tz, data, departure_time, parsed, stdout,
                   refresh_seconds>>
    /\ BeginUpdate(Tail(timers), FALSE)

\* the answer to the request in flight reaches fetch_route_lines, which parses
\* it and asks for the next route or returns; update_lines goes on to its end
DisplayRouteResponse ==
    /\ pc = "get_route"
    /\ UNCHANGED <<env, apiFile, tz, loaded, data, departure_time, parsed,
                   refresh_seconds, cycle, stdout>>
    /\ \E net \in NetOutcomes :
       \E got \in {get_route(net)} :
       \E result \in {IF got.ok THEN parse_route(got.val, departure_time, tz) ELSE got} :
       \E routes \in {loaded[1].val} :
          IF ~result.ok
          THEN /\ EndUpdate(HandleError(result.exc), timers, in_init)
               /\ UNCHANGED <<lines, requests>>
          ELSE /\ lines' = Append(lines, RouteLine(routes[route_idx].name,
                                                   result.val[2]))
               /\ IF route_idx < Len(routes)
                  THEN /\ route_idx' = route_idx + 1
                       /\ requests' = Append(requests,
                              RequestParams(routes[route_idx + 1],
                                            load_api_key(env, apiFile).val,
                                            departure_time, env))
                       /\ UNCHANGED <<pc, in_init, timers, line1, line2, status,
                                      caught>>
                  ELSE /\ EndUpdate(ShowLines(lines'), timers, in_init)
                       /\ UNCHANGED requests

DisplayNext == Prompt \/ Construct \/ TimerExpiry \/ DisplayRouteResponse

SpecDisplay == DisplayInit /\ [][DisplayNext]_vars

-----------------------------------------------------------------------------
(* Properties of display mode, under SpecDisplay *)

\* update_lines has run and is not running
BetweenRefreshes == pc \in {"mainloop", "crashed"} /\ cycle >= 1

IsPrefix(pre, str) == Len(pre) <= Len(str) /\ SubSeq(str, 1, Len(pre)) = pre

\* C1: every execution of update_lines, whatever error its pipeline met, ends
\* by arming the next timer: between refreshes a timer is always pending.
C1_RefreshAlwaysRearms == BetweenRefreshes => Len(timers) >= 1

\* C2: at most one refresh is in progress and at most one timer is pending; no
\* timer is pending before the first refresh or while a refresh runs, and a
\* pending timer was armed, for refresh_seconds, after the refresh that armed
\* it had set the two lines and the status text.
C2_OneRefreshOneTimer ==
    /\ Len(timers) <= 1
    /\ pc \in {"prompt", "construct", "get_route"} => timers = <<>>
    /\ Len(timers) = 1 =>
          /\ BetweenRefreshes
          /\ timers = <<refresh_seconds * 1000>>
          /\ status = StatusText(departure_time, WallClock(cycle, refresh_seconds), tz)
          /\ \/ caught = None /\ <<line1, line2>> = lines
             \/ caught # None /\ line1 = ErrorBanner

\* C2 happens: a second refresh, started by the timer, is waiting for the
\* answer to its second request
C2_Witness == pc = "get_route" /\ cycle = 2 /\ route_idx = 2 /\ ~in_init

\* C8, for the departure times localtime accepts: after a refresh that failed
\* the first line is the banner, the second line is the error's message
\* upper-cased and at most 80 characters long, and the timer is armed for the
\* refresh interval.
C8_ErrorLineBounded ==
    (BetweenRefreshes /\ caught # None /\ InLocaltimeRange(departure_time)) =>
        /\ line1 = ErrorBanner
        /\ IsPrefix(line2, Upper(caught[1].msg))
        /\ Len(line2) <= ErrorLineLength
        /\ timers = <<refresh_seconds * 1000>>

\* the display's part of C10: after every refresh the two lines are the two
\* route lines of that refresh, or the banner and the error's line; when the
\* first route fails no request is made for the second
DisplayAllOrNothing ==
    BetweenRefreshes =>
        /\ \/ /\ caught = None
              /\ Len(lines) = 2 /\ Len(requests) = 2
              /\ line1 = lines[1] /\ line2 = lines[2]
           \/ /\ caught # None
              /\ line1 = ErrorBanner
              /\ line2 = Upper(Take(caught[1].msg, ErrorLineLength))
        /\ (caught # None /\ Len(lines) = 0) => Len(requests) <= 1

-----------------------------------------------------------------------------
(* Console mode: main of src/src/aprox.py *)

\* the lines print_route prints
print_route(distance, duration, arrival) ==
    <<"Distance: " \o distance, "Estimated travel time: " \o duration>>
    \o (IF arrival # "" THEN <<"Estimated arrival time: " \o arrival>> ELSE <<>>)

Header(name) == "=== " \o name \o " ==="

ConsoleInit ==
    /\ env \in RunEnvs
    /\ apiFile \in ApiFiles
    /\ tz \in TimeZones
    /\ departure_time = 0
    /\ pc = "main"
    /\ NoConfig /\ NoParse /\ NoRun

\* main up to its first request: the key and the routes are loaded outside any
\* try, the first header is printed, the first route is asked for
ConsoleStart ==
    /\ pc = "main"
    /\ \E api_key \in {load_api_key(env, apiFile)} :
       \E routes \in {IF api_key.ok THEN load_routes(env) ELSE api_key} :
          /\ loaded' = IF api_key.ok THEN Some(routes) ELSE loaded
          /\ IF ~routes.ok
             THEN /\ pc' = "traceback"
                  /\ caught' = Some(routes.exc)
                  /\ UNCHANGED <<departure_time, stdout, requests, route_idx>>
             ELSE /\ departure_time' = WallClock(0, 0)
                  /\ stdout' = <<Header(routes.val[1].name)>>
                  /\ requests' = <<RequestParams(routes.val[1], api_key.val,
                                                 departure_time', env)>>
                  /\ route_idx' = 1
                  /\ pc' = "get_route"
                  /\ UNCHANGED caught
    /\ UNCHANGED <<env, apiFile, tz, data, parsed, in_init, refresh_seconds,
                   timers, line1, line2, status, lines, cycle>>

\* the answer to the request in flight: the route is parsed and printed, a
\* ValueError is printed, any other exception leaves main; then the next
\* route's header and request, or the end
ConsoleRouteResponse ==
    /\ pc = "get_route"
    /\ UNCHANGED <<env, apiFile, tz, loaded, data, departure_time, parsed, in_init,
                   refresh_seconds, timers, line1, line2, status, lines, cycle>>
    /\ \E net \in NetOutcomes :
       \E got \in {get_route(net)} :
       \E result \in {IF got.ok THEN parse_route(got.val, departure_time, tz) ELSE got} :
       \E routes \in {loaded[1].val} :
          IF ~result.ok /\ ~IsInstance(result.exc, "ValueError")
          THEN /\ pc' = "traceback"
               /\ caught' = Some(result.exc)
               /\ UNCHANGED <<stdout, requests, route_idx>>
          ELSE \E printed \in {IF result.ok
                               THEN print_route(result.val[1], result.val[2],
                                                result.val[3])
                               ELSE <<result.exc.msg>>} :
               /\ caught' = IF result.ok THEN caught ELSE Some(result.exc)
               /\ IF route_idx < Len(routes)
                  THEN /\ stdout' = stdout \o printed
                                    \o <<Header(routes[route_idx + 1].name)>>
                       /\ requests' = Append(requests,
                              RequestParams(routes[route_idx + 1],
                                            load_api_key(env, apiFile).val,
                                            departure_time, env))
                       /\ route_idx' = route_idx + 1
                       /\ pc' = "get_route"
                  ELSE /\ stdout' = stdout \o printed
                       /\ pc' = "exit"
                       /\ UNCHANGED <<requests, route_idx>>

ConsoleNext == ConsoleStart \/ ConsoleRouteResponse

SpecConsole == ConsoleInit /\ [][ConsoleNext]_vars

-----------------------------------------------------------------------------
(* Properties of console mode, under SpecConsole *)

\* a network or transport failure of requests.get
IsFetchError(exc) == exc.type = "ConnectionError"

\* parse_route's error for a response that reports an error or no route
IsRouteError(exc) == exc.type = "ValueError"

\* C3: a fetch failure or a route error of any route is caught in that route's
\* iteration and printed, and the loop goes on: main is not left by it, and
\* when the first route fails the second route's header is still printed.
C3_RouteFailuresCaught ==
    (Len(requests) >= 1 /\ caught # None
        /\ (IsFetchError(caught[1]) \/ IsRouteError(caught[1]))) =>
        /\ pc # "traceback"
        /\ \E i \in 1..Len(stdout) : stdout[i] = caught[1].msg
        /\ \E i \in 1..Len(stdout) : stdout[i] = Header(loaded[1].val[2].name)

\* C10: a display refresh is all or nothing across the two routes, and stops
\* at the first route that fails; unlike console mode, where the second route
\* is still requested once the first has failed.
C10_AllOrNothingUnlikeConsole ==
    /\ DisplayAllOrNothing
    /\ (pc \in {"traceback", "exit"} /\ Len(requests) >= 1 /\ caught # None) =>
          Len(requests) = 2

=============================================================================
